---- MODULE Spec2Model ----
(***************************************************************************)
(* Quiz session state machine of the interview-helper bot                  *)
(* (src/handlers/quiz.py) over its persistence layer (src/storage/db.py).  *)
(*                                                                         *)
(* Every inbound update is handled by its own asyncio task (aiogram's      *)
(* polling creates one task per update), so handlers of one user           *)
(* interleave at their await points.  A handler is modelled as a task      *)
(* whose steps are the runs of code between two awaits; a resumption that  *)
(* touches no shared state (_PENDING_SESSIONS, a state dict, the database) *)
(* is folded into the step before it.  A database call reads or writes in  *)
(* the step that issues it.                                                *)
(*                                                                         *)
(* Keys of a state dict that the handlers only write or only print         *)
(* (level, level_label, topic_id, topic_title, topic_buttons) are left     *)
(* out; level_pairs and level_buttons are the one set "levels".            *)
(***************************************************************************)
EXTENDS Integers, Sequences, FiniteSets, Bags, TLC

VARIABLES
    topics,             \* table topics: id -> [level, active]
    qrows,              \* table questions: id -> [topic, qtype, nopts, correct, del]
    sessions,           \* table sessions: id -> [user, topic, total, idx, correct, del]
    answers,            \* table answers, in insertion order
    _PENDING_SESSIONS,  \* user id -> reference of the user's state dict, or None
    dicts,              \* the state dicts, by reference
    tasks,              \* the handler tasks suspended at an await
    out,                \* the last message sent
    selected,           \* history: per session, the topic's size when it was selected
    lim                 \* the bounds and the users of the run

vars == <<topics, qrows, sessions, answers, _PENDING_SESSIONS, dicts, tasks,
          out, selected, lim>>

(***************************************************************************)
(* Bounds of the model.                                                    *)
(***************************************************************************)
MaxTasks == 2        \* Spec: handler tasks in flight at once
MaxSessions == 1     \* Spec: rows of table sessions
MaxAnswers == 2      \* Spec: answers submitted that pass validation
MaxRotate == 1       \* Spec: outcomes of ORDER BY RANDOM(), rotations 0..MaxRotate
SeqTasks == 1        \* SpecAdmin, SpecSizes: handlers run one at a time
SeqSessions == 2     \* SpecAdmin, SpecSizes: rows of table sessions
SeqAnswers == 1      \* SpecAdmin, SpecSizes: answers that pass validation
SeqRotate == 0       \* SpecAdmin, SpecSizes: rotations 0..SeqRotate
AdminAdds == 2       \* SpecAdmin: questions the administrator adds
MaxStatsAnswers == 3  \* SpecStats: rows of table answers
MaxReseeds == 1      \* SpecRestart: restarts that load the seed file
MaxPickRows == 3         \* SpecPick: rows in table questions
MaxPickLimit == 4        \* SpecPick: the largest limit asked for
MaxPickDraw == 2         \* SpecPick: outcomes of ORDER BY RANDOM()
RequizSessions == 2      \* SpecRequiz: rows of table sessions
RequizAnswers == 1       \* SpecRequiz: answers that pass validation
OptionlessAnswers == 2   \* SpecOptionless: answers that pass validation
UsersSessions == 2       \* SpecUsers: rows of table sessions
UsersAnswers == 1        \* SpecUsers: answers that pass validation

(***************************************************************************)
(* Program constants.                                                      *)
(***************************************************************************)
MIN_QUESTION_COUNT == 7
MAX_QUESTION_COUNT == 10

None == -1           \* Python's None / SQL NULL in an integer position

UserIds == {1, 2}
TopicIds == {1, 2, 3}
Levels == {"basic", "advanced"}
DictRefs == 1..(MaxTasks + Cardinality(UserIds))

Min(a, b) == IF a <= b THEN a ELSE b

(***************************************************************************)
(* Texts a user can send to the flow handler.  A level button carries the  *)
(* level's label, a topic button the topic's title.                        *)
(***************************************************************************)
TopicTitle(t) == <<"T1", "T2", "T3">>[t]
Numerals == {"1", "2", "3"}
Texts == {"menu", "back", "skip", "words"} \cup Levels
            \cup {TopicTitle(t) : t \in TopicIds} \cup Numerals

\* int(text): the number, or None where Python raises ValueError
ParseInt(txt) ==
    CASE txt = "1" -> 1
      [] txt = "2" -> 2
      [] txt = "3" -> 3
      [] OTHER -> None

(***************************************************************************)
(* Content Store                                                           *)
(***************************************************************************)
QuestionIds == DOMAIN qrows

QuestionsOf(t) == {q \in QuestionIds : qrows[q].topic = t /\ ~qrows[q].del}

count_questions(t) == Cardinality(QuestionsOf(t))

list_levels == {topics[t].level : t \in {x \in TopicIds : topics[x].active}}

\* the topics a quiz can run on: active and with at least one question
EligibleTopics == {x \in TopicIds : topics[x].active /\ count_questions(x) >= 1}

\* topic id -> question_count for the active topics of the level; 0 elsewhere
\* stands for "not in the result" once the caller has dropped the empty topics
list_topics(level) ==
    [t \in TopicIds |->
        IF topics[t].active /\ topics[t].level = level
        THEN count_questions(t) ELSE 0]

\* the ids of a set in increasing order
RECURSIVE SortedSeq(_)
SortedSeq(S) ==
    IF S = {} THEN <<>>
    ELSE LET m == CHOOSE x \in S : \A y \in S : x <= y
         IN <<m>> \o SortedSeq(S \ {m})

Rotate(s, k) ==
    IF Len(s) = 0 THEN s
    ELSE [i \in 1..Len(s) |-> s[((i - 1 + k) % Len(s)) + 1]]

\* faulty variant of LIMIT: every row is returned
TakeAll(s, n) == s

\* LIMIT n
Take(s, n) == SubSeq(s, 1, Min(n, Len(s)))

\* faulty variant of pick_questions, without "WHERE topic_id=?"
PickAnyTopic(t, limit, rot) == Take(Rotate(SortedSeq(QuestionIds), rot), limit)

\* SELECT ... WHERE topic_id=? ORDER BY RANDOM() LIMIT ?  (rot: the draw)
pick_questions(t, limit, rot) == Take(Rotate(SortedSeq(QuestionsOf(t)), rot), limit)

(***************************************************************************)
(* State dicts                                                             *)
(***************************************************************************)
NoTopics == [t \in TopicIds |-> 0]

\* a dict no handler and no user refers to
FreeDict ==
    [stage |-> "free", levels |-> {}, tmap |-> NoTopics, questions |-> <<>>,
     session_id |-> None, idx |-> None, correct |-> None, total |-> None,
     chat_id |-> FALSE, last_msg |-> FALSE]

\* {"stage": "choose_level"}
NewDict == [FreeDict EXCEPT !.stage = "choose_level"]

\* faulty variant of the reset: the stage is set, the keys of the quiz stay
ResetStageOnly(d) == [d EXCEPT !.stage = "choose_level"]

\* pops the keys of a quiz
_reset_to_choose_level(d) ==
    [d EXCEPT !.stage = "choose_level", !.levels = {}, !.tmap = NoTopics,
              !.questions = <<>>, !.session_id = None, !.idx = None,
              !.correct = None, !.total = None, !.chat_id = FALSE,
              !.last_msg = FALSE]

\* state.get("idx", 0), state.get("correct", 0)
GetOr0(v) == IF v = None THEN 0 ELSE v

(***************************************************************************)
(* Tasks                                                                   *)
(***************************************************************************)
\* the locals of a handler; cc is the running count read when the answer was
\* validated (the button handler reads it again after the answer is logged);
\* sid is the session a selection created or an
\* advance wrote to; sid0 and idx0 record the session and the cursor
\* a turn was validated against; for cmd_quiz, had records whether the user
\* had a Flow State, sid0 the last session created before it and avail the
\* number of eligible topics when list_levels was issued
Task0 ==
    [pc |-> "none", u |-> 0, st |-> 0, had |-> FALSE, q |-> None, cc |-> 0,
     gained |-> 0,
     choice |-> None, via |-> FALSE, score |-> None, lidx |-> None,
     lqs |-> <<>>, levels |-> {}, tmap |-> NoTopics, topic |-> None,
     sid |-> None, avail |-> None, sid0 |-> None, idx0 |-> None]

TaskSet == BagToSet(tasks)
NumTasks == BagCardinality(tasks)

Spawn(t) == tasks (+) SetToBag({t})
Replace(t, n) == (tasks (-) SetToBag({t})) (+) SetToBag({n})
Drop(t) == tasks (-) SetToBag({t})

\* the dicts something still refers to after a step
Live(pend, tsk) ==
    {pend[u] : u \in UserIds} \cup {t.st : t \in BagToSet(tsk)}

\* a dict nothing refers to any more is garbage
Collect(ds, pend, tsk) ==
    [r \in DictRefs |-> IF r \in Live(pend, tsk) THEN ds[r] ELSE FreeDict]

FreshRef == CHOOSE r \in DictRefs : r \notin Live(_PENDING_SESSIONS, tasks)

\* the effects of one step on the flow states and the tasks
Commit(ds, pend, tsk) ==
    /\ _PENDING_SESSIONS' = pend
    /\ tasks' = tsk
    /\ dicts' = Collect(ds, pend, tsk)

NoFlowChange == UNCHANGED <<_PENDING_SESSIONS, dicts, tasks>>

\* a message without a remediation list
NoStats == <<>>

\* message.answer(...) / callback.answer(...): what is sent, with its numbers
Msg(u, kind, n, m, wrong) ==
    [u |-> u, kind |-> kind, n |-> n, m |-> m, wrong |-> wrong]
Say(u, kind) == out' = Msg(u, kind, None, None, NoStats)

Store == <<sessions, answers, selected>>
Content == <<topics, qrows, lim>>

\* the tasks of turns that passed validation and have not logged their answer
TurnPcs == {"cb_edit", "mcq_log", "grading", "open_log", "open_log_fail"}
TurnsInFlight ==
    BagCardinality([t \in {x \in TaskSet : x.pc \in TurnPcs} |-> tasks[t]])

\* the user submits at most lim.answers answers that pass validation
AnswersLeft == Len(answers) + TurnsInFlight < lim.answers

\* table sessions will hold at most lim.sessions rows
SessionsLeft ==
    Len(sessions) + Cardinality({t \in TaskSet : t.pc = "pick"}) < lim.sessions

\* a user sends an update: fewer than lim.tasks handlers are in flight, and
\* the run has an answer or a session left
CanSend(u) ==
    /\ u \in lim.users
    /\ NumTasks < lim.tasks
    /\ (Len(answers) < lim.answers \/ Len(sessions) < lim.sessions)

(***************************************************************************)
(* cmd_quiz                                                                *)
(***************************************************************************)
\* up to "await db.list_levels()"
CmdQuizBody(u) ==
    LET fresh == _PENDING_SESSIONS[u] = None
        st == IF fresh THEN FreshRef ELSE _PENDING_SESSIONS[u]
        d == _reset_to_choose_level(IF fresh THEN NewDict ELSE dicts[st])
    IN /\ Commit([dicts EXCEPT ![st] = d], [_PENDING_SESSIONS EXCEPT ![u] = st],
                 Spawn([Task0 EXCEPT !.pc = "quiz_levels", !.u = u, !.st = st,
                                     !.had = ~fresh, !.sid0 = Len(sessions),
                                     !.avail = Cardinality(EligibleTopics),
                                     !.levels = list_levels]))
       /\ UNCHANGED <<Store, Content, out>>

CmdQuiz(u) == CanSend(u) /\ CmdQuizBody(u)

\* from the result of list_levels to the next await
QuizLevels(t) ==
    /\ t.pc = "quiz_levels"
    /\ IF t.levels = {}
       THEN /\ Commit(dicts, _PENDING_SESSIONS, Replace(t, [t EXCEPT !.pc = "quiz_pop"]))
            /\ Say(t.u, "no_topics")
       ELSE /\ Commit([dicts EXCEPT ![t.st].stage = "choose_level",
                                    ![t.st].levels = t.levels],
                      _PENDING_SESSIONS, Drop(t))
            /\ Say(t.u, "choose_level")
    /\ UNCHANGED <<Store, Content>>

\* _PENDING_SESSIONS.pop(user_id, None) after the "no topics" message
QuizPop(t) ==
    /\ t.pc = "quiz_pop"
    /\ Commit(dicts, [_PENDING_SESSIONS EXCEPT ![t.u] = None], Drop(t))
    /\ UNCHANGED <<Store, Content, out>>

(***************************************************************************)
(* flow: the branches before the answering stage                           *)
(***************************************************************************)
FlowIgnore(u, txt) ==
    /\ CanSend(u)
    /\ txt = "skip"
    /\ UNCHANGED vars

\* faulty variant of the main-menu branch: _PENDING_SESSIONS.clear()
FlowMainMenuAll(u, txt) ==
    /\ CanSend(u)
    /\ txt = "menu"
    /\ Commit(dicts, [v \in UserIds |-> None], tasks)
    /\ Say(u, "main_menu")
    /\ UNCHANGED <<Store, Content>>

FlowMainMenu(u, txt) ==
    /\ CanSend(u)
    /\ txt = "menu"
    /\ Commit(dicts, [_PENDING_SESSIONS EXCEPT ![u] = None], tasks)
    /\ Say(u, "main_menu")
    /\ UNCHANGED <<Store, Content>>

FlowBack(u, txt) ==
    /\ CanSend(u)
    /\ txt = "back"
    /\ IF _PENDING_SESSIONS[u] # None
       THEN LET st == _PENDING_SESSIONS[u]
            IN /\ Commit([dicts EXCEPT ![st] = _reset_to_choose_level(dicts[st])],
                         _PENDING_SESSIONS,
                         Spawn([Task0 EXCEPT !.pc = "back_levels", !.u = u,
                                             !.st = st, !.levels = list_levels]))
               /\ UNCHANGED <<Store, Content, out>>
       ELSE CmdQuizBody(u)

\* level_pairs and level_buttons from the result of list_levels
BackLevels(t) ==
    /\ t.pc = "back_levels"
    /\ Commit([dicts EXCEPT ![t.st].levels = t.levels], _PENDING_SESSIONS, Drop(t))
    /\ Say(t.u, "back_levels")
    /\ UNCHANGED <<Store, Content>>

\* the texts no earlier branch of flow takes
Plain(txt) == txt \notin {"skip", "menu", "back"}

\* faulty variant of the branch "if not state": the text starts a quiz
FlowNoStateStarts(u, txt) ==
    /\ CanSend(u)
    /\ Plain(txt)
    /\ _PENDING_SESSIONS[u] = None
    /\ CmdQuizBody(u)

FlowNoState(u, txt) ==
    /\ CanSend(u)
    /\ Plain(txt)
    /\ _PENDING_SESSIONS[u] = None
    /\ UNCHANGED vars

FlowChooseLevel(u, txt) ==
    /\ CanSend(u)
    /\ Plain(txt)
    /\ _PENDING_SESSIONS[u] # None
    /\ LET st == _PENDING_SESSIONS[u]
           d == dicts[st]
       IN /\ d.stage = "choose_level"
          /\ IF txt \in d.levels
             THEN /\ Commit(dicts, _PENDING_SESSIONS,
                            Spawn([Task0 EXCEPT !.pc = "list_topics", !.u = u,
                                                !.st = st,
                                                !.tmap = list_topics(txt)]))
                  /\ UNCHANGED out
             ELSE /\ NoFlowChange
                  /\ Say(u, "reprompt_level")
    /\ UNCHANGED <<Store, Content>>

\* faulty variant of ListTopics, without the check "if not topics"
ListTopicsAlways(t) ==
    /\ t.pc = "list_topics"
    /\ Commit([dicts EXCEPT ![t.st].stage = "choose_topic", ![t.st].tmap = t.tmap],
              _PENDING_SESSIONS, Drop(t))
    /\ Say(t.u, "topics")
    /\ UNCHANGED <<Store, Content>>

\* from the result of list_topics to the end of the branch
ListTopics(t) ==
    /\ t.pc = "list_topics"
    /\ IF t.tmap = NoTopics
       THEN /\ Commit(dicts, _PENDING_SESSIONS, Drop(t))
            /\ Say(t.u, "no_level_topics")
       ELSE /\ Commit([dicts EXCEPT ![t.st].stage = "choose_topic",
                                    ![t.st].tmap = t.tmap],
                      _PENDING_SESSIONS, Drop(t))
            /\ Say(t.u, "topics")
    /\ UNCHANGED <<Store, Content>>

\* faulty variant of the draw: always the largest session
TargetTotalsMax(total_available) == {Min(MAX_QUESTION_COUNT, total_available)}

\* random.randint(MIN_QUESTION_COUNT, upper_bound), or the whole pool
TargetTotals(total_available) ==
    LET upper_bound == Min(MAX_QUESTION_COUNT, total_available)
    IN IF total_available >= MIN_QUESTION_COUNT
       THEN MIN_QUESTION_COUNT..upper_bound
       ELSE {total_available}

\* topic_map.get(lowered): only topics listed with questions are in the map
TopicOf(d, txt) ==
    IF \E x \in TopicIds : txt = TopicTitle(x) /\ d.tmap[x] > 0
    THEN CHOOSE x \in TopicIds : txt = TopicTitle(x)
    ELSE None

\* the batches the selection of topic x can fetch: the target drawn from the
\* question_count listed in state d, the questions from the table as it is
Batches(d, x) ==
    {pick_questions(x, target_total, rot) :
        target_total \in TargetTotals(d.tmap[x]), rot \in 0..lim.rotate}

\* flow in stage "choose_topic", up to "await db.pick_questions(...)"
FlowChooseTopic(u, txt) ==
    /\ CanSend(u)
    /\ Plain(txt)
    /\ _PENDING_SESSIONS[u] # None
    /\ LET st == _PENDING_SESSIONS[u]
           d == dicts[st]
           x == TopicOf(d, txt)
       IN /\ d.stage = "choose_topic"
          /\ IF x # None
             THEN /\ SessionsLeft
                  /\ \E questions \in Batches(d, x) :
                       Commit(dicts, _PENDING_SESSIONS,
                              Spawn([Task0 EXCEPT
                                  !.pc = "pick", !.u = u, !.st = st, !.topic = x,
                                  !.lqs = questions,
                                  !.avail = count_questions(x)]))
                  /\ UNCHANGED out
             ELSE /\ NoFlowChange
                  /\ Say(u, "reprompt_topic")
    /\ UNCHANGED <<Store, Content>>

\* faulty variant of start_session: the row is inserted twice
StartSessionTwice(user_id, topic_id, total) ==
    sessions \o
        [i \in 1..2 |-> [user |-> user_id, topic |-> topic_id, total |-> total,
                         idx |-> 0, correct |-> 0, del |-> FALSE]]

\* INSERT INTO sessions(user_id, topic_id, total, mode)
start_session(user_id, topic_id, total) ==
    Append(sessions, [user |-> user_id, topic |-> topic_id, total |-> total,
                      idx |-> 0, correct |-> 0, del |-> FALSE])

\* faulty variant of Pick, without the check "if not questions"
PickUnchecked(t) ==
    /\ t.pc = "pick"
    /\ sessions' = start_session(t.u, t.topic, Len(t.lqs))
    /\ selected' = Append(selected, t.avail)
    /\ Commit(dicts, _PENDING_SESSIONS,
              Replace(t, [t EXCEPT !.pc = "session_started",
                                   !.sid = Len(sessions) + 1]))
    /\ UNCHANGED <<answers, Content, out>>

\* from the result of pick_questions to "await db.start_session(...)"
Pick(t) ==
    /\ t.pc = "pick"
    /\ IF t.lqs = <<>>
       THEN /\ Commit(dicts, _PENDING_SESSIONS, Drop(t))
            /\ Say(t.u, "no_questions")
            /\ UNCHANGED <<sessions, selected>>
       ELSE /\ sessions' = start_session(t.u, t.topic, Len(t.lqs))
            /\ selected' = Append(selected, t.avail)
            /\ Commit(dicts, _PENDING_SESSIONS,
                      Replace(t, [t EXCEPT !.pc = "session_started",
                                           !.sid = Len(sessions) + 1]))
            /\ UNCHANGED out
    /\ UNCHANGED <<answers, Content>>

\* state.update({... "stage": "answering" ...}) and the start message
SessionStarted(t) ==
    /\ t.pc = "session_started"
    /\ Commit([dicts EXCEPT ![t.st] =
                  [@ EXCEPT !.stage = "answering", !.questions = t.lqs,
                            !.session_id = t.sid, !.idx = 0, !.correct = 0,
                            !.total = Len(t.lqs), !.chat_id = TRUE,
                            !.last_msg = FALSE]],
              _PENDING_SESSIONS, Replace(t, [t EXCEPT !.pc = "send_first"]))
    /\ out' = Msg(t.u, "start", Len(t.lqs), None, NoStats)
    /\ UNCHANGED <<Store, Content>>

\* question["qtype"] == "mcq" and question.get("options")
HasButtons(q) == qrows[q].qtype = "mcq" /\ qrows[q].nopts > 0

\* send_question up to the resumption after its "await message.answer(...)"
SendQuestion(t, q, number, total) ==
    /\ out' = Msg(t.u, "question", number, total, NoStats)
    /\ IF HasButtons(q)
       THEN Commit([dicts EXCEPT ![t.st].chat_id = TRUE], _PENDING_SESSIONS,
                   Replace(t, [t EXCEPT !.pc = "sent_q"]))
       ELSE Commit([dicts EXCEPT ![t.st].chat_id = TRUE, ![t.st].last_msg = FALSE],
                   _PENDING_SESSIONS, Drop(t))

SendFirst(t) ==
    /\ t.pc = "send_first"
    /\ SendQuestion(t, t.lqs[1], 1, Len(t.lqs))
    /\ UNCHANGED <<Store, Content>>

\* state["last_question_message_id"] = sent.message_id
SentQ(t) ==
    /\ t.pc = "sent_q"
    /\ Commit([dicts EXCEPT ![t.st].last_msg = TRUE], _PENDING_SESSIONS, Drop(t))
    /\ UNCHANGED <<Store, Content, out>>

(***************************************************************************)
(* Answer intake                                                           *)
(***************************************************************************)
\* faulty variant of the range check, its upper bound off by one
ValidChoiceUpTo(q, choice_index) ==
    ~(choice_index < 0 \/ choice_index > qrows[q].nopts)

\* the range check of _handle_mcq_answer
ValidChoice(q, choice_index) ==
    ~(choice_index < 0 \/ choice_index >= qrows[q].nopts)

\* int(correct_index is not None and choice_index == int(correct_index))
IsCorrect(q, choice_index) ==
    IF qrows[q].correct # None /\ choice_index = qrows[q].correct THEN 1 ELSE 0

\* flow in stage "answering", up to the first await that is followed by an
\* access to shared state
FlowAnswering(u, txt) ==
    /\ CanSend(u)
    /\ Plain(txt)
    /\ _PENDING_SESSIONS[u] # None
    /\ LET st == _PENDING_SESSIONS[u]
           d == dicts[st]
           idx == GetOr0(d.idx)
           question == d.questions[idx + 1]
           correct_count == GetOr0(d.correct)
           choice_index == ParseInt(txt) - 1
           turn == [Task0 EXCEPT !.u = u, !.st = st, !.q = question,
                                 !.cc = correct_count, !.sid0 = d.session_id,
                                 !.idx0 = idx]
       IN /\ d.stage = "answering"
          /\ IF idx >= Len(d.questions)
             THEN UNCHANGED <<_PENDING_SESSIONS, dicts, tasks, out>>
             ELSE IF qrows[question].qtype = "mcq"
             THEN IF ParseInt(txt) = None
                  THEN NoFlowChange /\ Say(u, "need_number")
                  ELSE IF ~ValidChoice(question, choice_index)
                  THEN NoFlowChange /\ Say(u, "no_option")
                  ELSE /\ AnswersLeft
                       /\ Commit([dicts EXCEPT ![st].last_msg = FALSE],
                                 _PENDING_SESSIONS,
                                 Spawn([turn EXCEPT
                                     !.pc = "mcq_log", !.choice = choice_index,
                                     !.gained = IsCorrect(question, choice_index)]))
                       /\ Say(u, "feedback")
             ELSE /\ AnswersLeft
                  /\ Commit(dicts, _PENDING_SESSIONS,
                            Spawn([turn EXCEPT !.pc = "grading"]))
                  /\ UNCHANGED out
    /\ UNCHANGED <<Store, Content>>

\* the choice indexes a callback can carry
ChoiceIndexes == 0..2

\* handle_answer_callback up to "await message.edit_reply_markup()"
Callback(u, question_id, choice_index) ==
    /\ CanSend(u)
    /\ IF _PENDING_SESSIONS[u] = None
       THEN NoFlowChange /\ Say(u, "inactive")
       ELSE LET st == _PENDING_SESSIONS[u]
                d == dicts[st]
                idx == GetOr0(d.idx)
                question == d.questions[idx + 1]
            IN IF d.stage # "answering"
               THEN NoFlowChange /\ Say(u, "inactive")
               ELSE IF idx >= Len(d.questions)
               THEN NoFlowChange /\ Say(u, "finished")
               ELSE IF question # question_id
               THEN NoFlowChange /\ Say(u, "closed")
               ELSE IF ~ValidChoice(question, choice_index)
               THEN NoFlowChange /\ Say(u, "bad_option")
               ELSE /\ AnswersLeft
                    /\ Commit(dicts, _PENDING_SESSIONS,
                              Spawn([Task0 EXCEPT
                                  !.pc = "cb_edit", !.u = u, !.st = st,
                                  !.q = question, !.choice = choice_index,
                                  !.cc = GetOr0(d.correct),
                                  !.via = TRUE, !.sid0 = d.session_id,
                                  !.idx0 = idx,
                                  !.gained = IsCorrect(question, choice_index)]))
                    /\ UNCHANGED out
    /\ UNCHANGED <<Store, Content>>

\* state.pop("last_question_message_id", None), then the feedback message
CbEdit(t) ==
    /\ t.pc = "cb_edit"
    /\ Commit([dicts EXCEPT ![t.st].last_msg = FALSE], _PENDING_SESSIONS,
              Replace(t, [t EXCEPT !.pc = "mcq_log"]))
    /\ Say(t.u, "feedback")
    /\ UNCHANGED <<Store, Content>>

\* INSERT INTO answers
\* faulty variant of log_answer: the row is inserted twice
LogAnswerTwice(session_id, question_id, user_text, chosen_index, is_correct, ai_score, ai_comment) ==
    answers \o
        [i \in 1..2 |-> [session |-> session_id, question |-> question_id,
                         user_text |-> user_text, chosen |-> chosen_index,
                         is_correct |-> is_correct, ai_score |-> ai_score,
                         ai_comment |-> ai_comment]]

log_answer(session_id, question_id, user_text, chosen_index, is_correct, ai_score, ai_comment) ==
    Append(answers, [session |-> session_id, question |-> question_id,
                     user_text |-> user_text, chosen |-> chosen_index,
                     is_correct |-> is_correct, ai_score |-> ai_score,
                     ai_comment |-> ai_comment])

\* db.log_answer(state["session_id"], ...) of _handle_mcq_answer; a state
\* without "session_id" raises KeyError, which ends the handler
McqLog(t) ==
    /\ t.pc = "mcq_log"
    /\ LET session_id == dicts[t.st].session_id
       IN IF session_id = None
          THEN /\ Commit(dicts, _PENDING_SESSIONS, Drop(t))
               /\ UNCHANGED answers
          ELSE /\ answers' = log_answer(session_id, t.q, FALSE, t.choice,
                                        t.gained, None, FALSE)
               /\ Commit(dicts, _PENDING_SESSIONS,
                         Replace(t, [t EXCEPT !.pc = "logged"]))
    /\ UNCHANGED <<sessions, selected, Content, out>>

\* what the grader's reply can be
RawScores == {2, 3, 4, 6}
Replies == [kind : {"json"}, score : RawScores]
              \cup {[kind |-> "malformed", score |-> None],
                    [kind |-> "no_score", score |-> None],
                    [kind |-> "no_comment", score |-> 3],
                    [kind |-> "error", score |-> None]}

\* faulty variant of the validation, without the bounds of the score
ScoreUnchecked(reply) == IF reply.kind = "json" THEN reply.score ELSE None

\* ChatGPTProvider.score_open_answer: the validated score, None where it raises
score_open_answer(reply) ==
    CASE reply.kind = "error" -> None                       \* the call raises
      [] reply.kind = "malformed" -> None                   \* json.loads raises
      [] reply.kind \in {"no_score", "no_comment"} -> None  \* field required
      [] OTHER -> IF reply.score >= 0 /\ reply.score <= 5   \* Field(ge=0, le=5)
                  THEN reply.score ELSE None

\* from the grader's reply to the feedback message
Graded(t) ==
    /\ t.pc = "grading"
    /\ \E reply \in Replies :
         LET score == score_open_answer(reply)
         IN IF score = None
            THEN /\ Commit(dicts, _PENDING_SESSIONS,
                           Replace(t, [t EXCEPT !.pc = "open_log_fail"]))
                 /\ Say(t.u, "ungraded")
            ELSE /\ Commit(dicts, _PENDING_SESSIONS,
                           Replace(t, [t EXCEPT !.pc = "open_log", !.score = score,
                                                !.cc = IF score >= 4 THEN @ + 1 ELSE @]))
                 /\ out' = Msg(t.u, "score", score, None, NoStats)
    /\ UNCHANGED <<Store, Content>>

\* db.log_answer(...) inside the try; KeyError is caught by "except Exception"
OpenLog(t) ==
    /\ t.pc = "open_log"
    /\ LET session_id == dicts[t.st].session_id
       IN IF session_id = None
          THEN /\ Commit(dicts, _PENDING_SESSIONS,
                         Replace(t, [t EXCEPT !.pc = "open_log_fail"]))
               /\ Say(t.u, "ungraded")
               /\ UNCHANGED answers
          ELSE /\ answers' = log_answer(session_id, t.q, TRUE, None, None, t.score, TRUE)
               /\ Commit(dicts, _PENDING_SESSIONS,
                         Replace(t, [t EXCEPT !.pc = "logged"]))
               /\ UNCHANGED out
    /\ UNCHANGED <<sessions, selected, Content>>

\* db.log_answer(...) of the except branch
OpenLogFail(t) ==
    /\ t.pc = "open_log_fail"
    /\ LET session_id == dicts[t.st].session_id
       IN IF session_id = None
          THEN /\ Commit(dicts, _PENDING_SESSIONS, Drop(t))
               /\ UNCHANGED answers
          ELSE /\ answers' = log_answer(session_id, t.q, TRUE, None, None, None, FALSE)
               /\ Commit(dicts, _PENDING_SESSIONS,
                         Replace(t, [t EXCEPT !.pc = "logged"]))
    /\ UNCHANGED <<sessions, selected, Content, out>>

(***************************************************************************)
(* _advance_after_answer                                                   *)
(***************************************************************************)
\* faulty variant of the update, without its WHERE clause
UpdateEverySession(session_id, idx, correct_count) ==
    [s \in DOMAIN sessions |->
        [sessions[s] EXCEPT !.idx = idx, !.correct = correct_count]]

\* UPDATE sessions SET idx=?, correct_count=? WHERE id=?
update_session_progress(session_id, idx, correct_count) ==
    [sessions EXCEPT ![session_id].idx = idx, ![session_id].correct = correct_count]

\* faulty variant of AdvanceBody: the progress is not written
AdvanceBodyNoWrite(t, correct_count) ==
    LET d == dicts[t.st]
        idx == GetOr0(d.idx) + 1
        ds == [dicts EXCEPT ![t.st].idx = idx, ![t.st].correct = correct_count,
                            ![t.st].last_msg = FALSE]
    IN /\ UNCHANGED sessions
       /\ Commit(ds, _PENDING_SESSIONS,
                 Replace(t, [t EXCEPT !.pc = "progress_done", !.lidx = idx,
                                      !.lqs = d.questions, !.cc = correct_count,
                                      !.sid = d.session_id]))

\* from "idx = state.get("idx", 0) + 1" to "await db.update_session_progress"
AdvanceBody(t, correct_count) ==
    LET d == dicts[t.st]
        idx == GetOr0(d.idx) + 1
        questions == d.questions
        ds == [dicts EXCEPT ![t.st].idx = idx, ![t.st].correct = correct_count,
                            ![t.st].last_msg = FALSE]
    IN IF d.session_id = None
       THEN /\ Commit(ds, _PENDING_SESSIONS, Drop(t))
            /\ UNCHANGED sessions
       ELSE /\ sessions' = update_session_progress(d.session_id, idx, correct_count)
            /\ Commit(ds, _PENDING_SESSIONS,
                      Replace(t, [t EXCEPT !.pc = "progress_done", !.lidx = idx,
                                           !.lqs = questions, !.cc = correct_count,
                                           !.sid = d.session_id]))

\* _clear_last_keyboard awaits the transport only when a keyboard is live
Advance(t, correct_count) ==
    IF dicts[t.st].last_msg /\ dicts[t.st].chat_id
    THEN /\ Commit([dicts EXCEPT ![t.st].last_msg = FALSE], _PENDING_SESSIONS,
                   Replace(t, [t EXCEPT !.pc = "adv", !.cc = correct_count]))
         /\ UNCHANGED sessions
    ELSE AdvanceBody(t, correct_count)

\* the correct count the caller passes to _advance_after_answer: the button
\* handler reads state["correct"] after the answer is logged
PassedCount(t) ==
    IF t.via THEN GetOr0(dicts[t.st].correct) + t.gained ELSE t.cc + t.gained

\* _advance_after_answer up to "await db.update_session_progress": entered
\* after the answer is logged, resumed after the keyboard is cleared
AdvanceAfterAnswer(t) ==
    /\ \/ t.pc = "logged" /\ Advance(t, PassedCount(t))
       \/ t.pc = "adv" /\ AdvanceBody(t, t.cc)
    /\ UNCHANGED <<answers, selected, Content, out>>

\* is_correct = 0 OR (is_correct IS NULL AND (ai_score IS NULL OR ai_score < 3))
NeedsReview(a) ==
    \/ a.is_correct = 0
    \/ (a.is_correct = None /\ (a.ai_score = None \/ a.ai_score < 3))

\* COUNT(*) ... GROUP BY t.id: topic -> count, 0 for a topic without a group
StatsGroups(session_id) ==
    [tp \in TopicIds |->
        Cardinality({i \in 1..Len(answers) :
            /\ answers[i].session = session_id
            /\ NeedsReview(answers[i])
            /\ answers[i].question \in QuestionIds
            /\ ~qrows[answers[i].question].del
            /\ qrows[answers[i].question].topic = tp})]

\* the groups in the order of GROUP BY t.id
GroupRows(g, S) == [i \in 1..Cardinality(S) |-> <<SortedSeq(S)[i], g[SortedSeq(S)[i]]>>]

\* ORDER BY COUNT(*) DESC over the groups S of g; equal counts by topic id
RECURSIVE OrderByCountDesc(_, _)
OrderByCountDesc(g, S) ==
    IF S = {} THEN <<>>
    ELSE LET top == CHOOSE x \in S :
                       \A y \in S : g[x] > g[y] \/ (g[x] = g[y] /\ x <= y)
         IN <<(<<top, g[top]>>)>> \o OrderByCountDesc(g, S \ {top})

\* faulty variant of the aggregation, without ORDER BY
StatsUnordered(session_id) ==
    LET g == StatsGroups(session_id)
    IN GroupRows(g, {tp \in TopicIds : g[tp] > 0})

\* the rows <<topic, count>> of the aggregation, in the order of the result
answers_by_topic_stats(session_id) ==
    LET g == StatsGroups(session_id)
    IN OrderByCountDesc(g, {tp \in TopicIds : g[tp] > 0})

\* the next question, or the statistics and the summary message
ProgressDone(t) ==
    /\ t.pc = "progress_done"
    /\ IF t.lidx < Len(t.lqs)
       THEN SendQuestion(t, t.lqs[t.lidx + 1], t.lidx + 1, Len(t.lqs))
       ELSE IF dicts[t.st].session_id = None
       THEN /\ Commit(dicts, _PENDING_SESSIONS, Drop(t))
            /\ UNCHANGED out
       ELSE /\ Commit(dicts, _PENDING_SESSIONS,
                      Replace(t, [t EXCEPT !.pc = "summary_sent"]))
            /\ out' = Msg(t.u, "summary", t.cc, Len(t.lqs),
                          answers_by_topic_stats(dicts[t.st].session_id))
    /\ UNCHANGED <<Store, Content>>

\* _PENDING_SESSIONS.pop(user_id, None)
SummarySent(t) ==
    /\ t.pc = "summary_sent"
    /\ Commit(dicts, [_PENDING_SESSIONS EXCEPT ![t.u] = None], Drop(t))
    /\ UNCHANGED <<Store, Content, out>>

(***************************************************************************)
(* The program                                                             *)
(***************************************************************************)
\* the handler of a text message: the first branch whose condition holds
Flow(u, txt) ==
    \/ FlowIgnore(u, txt)
    \/ FlowMainMenu(u, txt)
    \/ FlowBack(u, txt)
    \/ FlowNoState(u, txt)
    \/ FlowChooseLevel(u, txt)
    \/ FlowChooseTopic(u, txt)
    \/ FlowAnswering(u, txt)

Mcq(tp, n, c) == [topic |-> tp, qtype |-> "mcq", nopts |-> n, correct |-> c, del |-> FALSE]
Open(tp) == [topic |-> tp, qtype |-> "open", nopts |-> 0, correct |-> None, del |-> FALSE]

\* two basic topics, one of them inactive, and an advanced topic
StdTopics ==
    [t \in TopicIds |->
        [level |-> IF t = 2 THEN "advanced" ELSE "basic", active |-> t # 3]]

\* the same catalogue with every topic switched off
NoActiveTopics == [t \in TopicIds |-> [StdTopics[t] EXCEPT !.active = FALSE]]

InitFlow ==
    /\ sessions = <<>>
    /\ answers = <<>>
    /\ selected = <<>>
    /\ _PENDING_SESSIONS = [u \in UserIds |-> None]
    /\ dicts = [r \in DictRefs |-> FreeDict]
    /\ tasks = EmptyBag
    /\ out = Msg(0, "none", None, None, NoStats)

\* one user; a topic of two questions, a topic of one, an inactive topic
Init ==
    /\ InitFlow
    /\ lim = [tasks |-> MaxTasks, sessions |-> MaxSessions, answers |-> MaxAnswers,
              rotate |-> MaxRotate, rows |-> 0, users |-> {1}]
    /\ topics \in {StdTopics, NoActiveTopics}
    /\ qrows = <<Mcq(1, 2, 1), Open(1), Mcq(2, 2, 0), Mcq(3, 2, 0)>>

\* the buttons a user can press: those of the question the user is on, and
\* those of two questions shown before
Pressable(u) ==
    LET st == _PENDING_SESSIONS[u]
    IN {1, 2} \cup
       (IF st # None /\ GetOr0(dicts[st].idx) < Len(dicts[st].questions)
        THEN {dicts[st].questions[GetOr0(dicts[st].idx) + 1]} ELSE {})

\* a handler starts on an update of a user
Arrive ==
    \/ \E u \in UserIds : CmdQuiz(u)
    \/ \E u \in UserIds, txt \in Texts : FlowIgnore(u, txt)
    \/ \E u \in UserIds, txt \in Texts : FlowMainMenu(u, txt)
    \/ \E u \in UserIds, txt \in Texts : FlowBack(u, txt)
    \/ \E u \in UserIds, txt \in Texts : FlowNoState(u, txt)
    \/ \E u \in UserIds, txt \in Texts : FlowChooseLevel(u, txt)
    \/ \E u \in UserIds, txt \in Texts : FlowChooseTopic(u, txt)
    \/ \E u \in UserIds, txt \in Texts : FlowAnswering(u, txt)
    \/ \E u \in UserIds : \E q \in Pressable(u), c \in ChoiceIndexes :
            Callback(u, q, c)

\* a handler suspended on the bot's own store or on a send to the user resumes
ResumeLocal ==
    \/ \E t \in TaskSet : QuizLevels(t)
    \/ \E t \in TaskSet : QuizPop(t)
    \/ \E t \in TaskSet : BackLevels(t)
    \/ \E t \in TaskSet : ListTopics(t)
    \/ \E t \in TaskSet : Pick(t)
    \/ \E t \in TaskSet : SessionStarted(t)
    \/ \E t \in TaskSet : SendFirst(t)
    \/ \E t \in TaskSet : SentQ(t)
    \/ \E t \in TaskSet : CbEdit(t)
    \/ \E t \in TaskSet : McqLog(t)
    \/ \E t \in TaskSet : OpenLog(t)
    \/ \E t \in TaskSet : OpenLogFail(t)
    \/ \E t \in TaskSet : AdvanceAfterAnswer(t)
    \/ \E t \in TaskSet : ProgressDone(t)
    \/ \E t \in TaskSet : SummarySent(t)

\* a suspended handler resumes; the grader's reply is the one resumption
\* that depends on a party outside the bot
Resume ==
    \/ ResumeLocal
    \/ \E t \in TaskSet : Graded(t)

Next == Arrive \/ Resume

Spec == Init /\ [][Next]_vars

\* two topics of one question with room for a second session: the user can
\* start a new quiz while a handler of the previous one is still in flight
InitRequiz ==
    /\ InitFlow
    /\ lim = [tasks |-> MaxTasks, sessions |-> RequizSessions,
              answers |-> RequizAnswers, rotate |-> MaxRotate, rows |-> 0,
              users |-> {1}]
    /\ topics \in {StdTopics, NoActiveTopics}
    /\ qrows = <<Open(1), Mcq(2, 2, 0)>>

SpecRequiz == InitRequiz /\ [][Next]_vars

(***************************************************************************)
(* Content administration (src/handlers/admin.py) while quizzes run        *)
(***************************************************************************)
\* add_q: INSERT INTO questions(...) for an existing topic
add_q(tp, row) ==
    /\ Len(qrows) < lim.rows
    /\ qrows' = Append(qrows, row)
    /\ UNCHANGED <<topics, lim, Store, _PENDING_SESSIONS, dicts, tasks, out>>

\* import_topics_from_payload for one topic, with replace and no questions:
\* DELETE FROM questions WHERE topic_id=?
import_topics_from_payload(tp) ==
    /\ QuestionsOf(tp) # {}
    /\ qrows' = [q \in DOMAIN qrows |->
                    IF qrows[q].topic = tp THEN [qrows[q] EXCEPT !.del = TRUE]
                    ELSE qrows[q]]
    /\ UNCHANGED <<topics, lim, Store, _PENDING_SESSIONS, dicts, tasks, out>>

\* the administrator adds a question to a topic, or empties the small topic
Admin ==
    \/ \E tp \in {1, 2} : add_q(tp, Mcq(tp, 2, 0))
    \/ import_topics_from_payload(2)

\* a topic of six questions, the first an open one, a topic of one question
\* and a topic of twelve
AdminRows ==
    <<Open(1)>> \o [i \in 1..5 |-> Mcq(1, 2, 0)] \o <<Mcq(2, 2, 1)>>
        \o [i \in 1..12 |-> Mcq(3, 2, 1)]

\* the catalogue with every topic switched on
AllTopics == [t \in TopicIds |-> [StdTopics[t] EXCEPT !.active = TRUE]]

\* handlers run one at a time while the administrator edits the content
InitAdmin ==
    /\ InitFlow
    /\ lim = [tasks |-> SeqTasks, sessions |-> SeqSessions,
              answers |-> SeqAnswers, rotate |-> SeqRotate,
              rows |-> Len(AdminRows) + AdminAdds, users |-> {1}]
    /\ topics \in {AllTopics, NoActiveTopics}
    /\ qrows = AdminRows

NextAdmin == Next \/ Admin

SpecAdmin == InitAdmin /\ [][NextAdmin]_vars

(***************************************************************************)
(* Fixed content with topics around and above MIN_QUESTION_COUNT           *)
(***************************************************************************)
\* topics of seven (the first question an open one), eight and twelve questions
SizesRows ==
    <<Open(1)>> \o [i \in 1..6 |-> Mcq(1, 2, 0)] \o [i \in 1..8 |-> Mcq(2, 2, 1)]
        \o [i \in 1..12 |-> Mcq(3, 2, 1)]

\* topics of 1, 9 and 10 questions
SizesRowsSmall ==
    <<Open(1)>> \o [i \in 1..9 |-> Mcq(2, 2, 1)] \o [i \in 1..10 |-> Mcq(3, 2, 1)]

\* topics added with /add_topic that have no question yet
NoRows == <<>>

InitSizes ==
    /\ InitFlow
    /\ lim = [tasks |-> SeqTasks, sessions |-> SeqSessions,
              answers |-> SeqAnswers, rotate |-> SeqRotate,
              rows |-> 0, users |-> {1}]
    /\ topics \in {AllTopics, NoActiveTopics}
    /\ qrows \in {SizesRows, SizesRowsSmall, NoRows}

SpecSizes == InitSizes /\ [][Next]_vars

\* the event loop runs every handler whose await on the store or on a send
\* has ended; the call of the grader carries no timeout, so nothing makes
\* its await end
SpecGrading == InitSizes /\ [][Next]_vars /\ WF_vars(ResumeLocal)

(***************************************************************************)
(* The store is unavailable: a write raises                                *)
(***************************************************************************)
\* db.log_answer raises: in _handle_mcq_answer and in the except branch of
\* flow the exception ends the handler; inside the try of flow it is caught
\* by "except Exception"
LogAnswerFails(t) ==
    /\ t.pc \in {"mcq_log", "open_log", "open_log_fail"}
    /\ IF t.pc = "open_log"
       THEN /\ Commit(dicts, _PENDING_SESSIONS,
                      Replace(t, [t EXCEPT !.pc = "open_log_fail"]))
            /\ Say(t.u, "ungraded")
       ELSE /\ Commit(dicts, _PENDING_SESSIONS, Drop(t))
            /\ UNCHANGED out
    /\ UNCHANGED <<Store, Content>>

\* db.update_session_progress raises: state["idx"] and state["correct"] are
\* already set, the exception ends the handler
UpdateProgressFails(t) ==
    /\ t.pc = "adv" \/ (t.pc = "logged" /\ ~(dicts[t.st].last_msg /\ dicts[t.st].chat_id))
    /\ dicts[t.st].session_id # None
    /\ LET correct_count == IF t.pc = "logged" THEN PassedCount(t) ELSE t.cc
           idx == GetOr0(dicts[t.st].idx) + 1
       IN Commit([dicts EXCEPT ![t.st].idx = idx, ![t.st].correct = correct_count,
                               ![t.st].last_msg = FALSE],
                 _PENDING_SESSIONS, Drop(t))
    /\ UNCHANGED <<Store, Content, out>>

StoreFails ==
    \/ \E t \in TaskSet : LogAnswerFails(t)
    \/ \E t \in TaskSet : UpdateProgressFails(t)

NextFail == Next \/ StoreFails

\* handlers run one at a time over a store whose writes can fail
SpecFail == InitSizes /\ [][NextFail]_vars

(***************************************************************************)
(* /add_q with "-" in the options field                                    *)
(***************************************************************************)
\* _parse_options returns None for "-"; _parse_question_payload then takes
\* the correct number as it is, and add_q stores the mcq question with
\* options NULL
AddOptionless == add_q(1, Mcq(1, 0, 1))

InitOptionless ==
    /\ InitFlow
    /\ lim = [tasks |-> SeqTasks, sessions |-> SeqSessions,
              answers |-> OptionlessAnswers, rotate |-> SeqRotate,
              rows |-> Len(SizesRowsSmall) + 1, users |-> {1}]
    /\ topics \in {AllTopics, NoActiveTopics}
    /\ qrows = SizesRowsSmall

NextOptionless == Next \/ AddOptionless

\* handlers run one at a time; the administrator adds one question
SpecOptionless == InitOptionless /\ [][NextOptionless]_vars

(***************************************************************************)
(* Two users                                                               *)
(***************************************************************************)
\* _PENDING_SESSIONS is keyed by message.from_user.id; the updates of the
\* two users arrive in any order, each handled to its end
InitUsers ==
    /\ InitFlow
    /\ lim = [tasks |-> SeqTasks, sessions |-> UsersSessions,
              answers |-> UsersAnswers, rotate |-> SeqRotate, rows |-> 0,
              users |-> UserIds]
    /\ topics \in {StdTopics, NoActiveTopics}
    /\ qrows = <<Mcq(1, 2, 1), Mcq(1, 2, 0), Open(2)>>

SpecUsers == InitUsers /\ [][Next]_vars

(***************************************************************************)
(* Process restart: the memory is lost, main() runs db.init() and          *)
(* db.add_sample_data()                                                    *)
(***************************************************************************)
\* the topics whose title is one of PLACEHOLDER_TOPIC_TITLES
PlaceholderTopics == {3}

\* the seed file: topic 1 with one open question
SeedTopic == 1
SeedRows == <<Open(SeedTopic)>>

\* _remove_placeholder_topics: DELETE FROM answers / sessions / questions /
\* topics for the placeholder topics (a deleted topic is listed nowhere,
\* as an inactive one)
PlaceholderSessions ==
    {s \in 1..Len(sessions) : sessions[s].topic \in PlaceholderTopics}

AnswersKept == SelectSeq(answers, LAMBDA a : a.session \notin PlaceholderSessions)

SessionsKept ==
    [s \in 1..Len(sessions) |->
        IF s \in PlaceholderSessions THEN [sessions[s] EXCEPT !.del = TRUE]
        ELSE sessions[s]]

\* add_sample_data when the seed file is there: the placeholder topics go,
\* the seed topic is switched on and its questions are replaced
add_sample_data ==
    /\ Len(qrows) + Len(SeedRows) <= lim.rows
    /\ answers' = AnswersKept
    /\ sessions' = SessionsKept
    /\ topics' = [tp \in TopicIds |->
                    IF tp \in PlaceholderTopics THEN [topics[tp] EXCEPT !.active = FALSE]
                    ELSE IF tp = SeedTopic THEN [topics[tp] EXCEPT !.active = TRUE]
                    ELSE topics[tp]]
    /\ qrows' = [q \in DOMAIN qrows |->
                    IF qrows[q].topic \in PlaceholderTopics \cup {SeedTopic}
                    THEN [qrows[q] EXCEPT !.del = TRUE] ELSE qrows[q]] \o SeedRows

\* the process stops and starts again, with or without a seed file
Restart ==
    /\ _PENDING_SESSIONS' = [u \in UserIds |-> None]
    /\ dicts' = [r \in DictRefs |-> FreeDict]
    /\ tasks' = EmptyBag
    /\ \/ add_sample_data
       \/ UNCHANGED <<topics, qrows, sessions, answers>>
    /\ UNCHANGED <<out, selected, lim>>

\* an open topic, a choice topic and a placeholder topic, one question each
RestartRows == <<Open(1), Mcq(2, 2, 1), Mcq(3, 2, 0)>>

InitRestart ==
    /\ InitFlow
    /\ lim = [tasks |-> SeqTasks, sessions |-> SeqSessions,
              answers |-> SeqAnswers, rotate |-> SeqRotate,
              rows |-> Len(RestartRows) + MaxReseeds * Len(SeedRows),
              users |-> {1}]
    /\ topics \in {AllTopics, NoActiveTopics}
    /\ qrows = RestartRows

NextRestart == Next \/ Restart

SpecRestart == InitRestart /\ [][NextRestart]_vars

(***************************************************************************)
(* The remediation aggregation over arbitrary tables                       *)
(***************************************************************************)
\* an mcq and an open question in each of two topics
StatsQuestions == <<Mcq(1, 2, 0), Open(1), Mcq(2, 2, 0), Open(2)>>

\* the same after the first question was deleted
StatsQuestionsCut == [StatsQuestions EXCEPT ![1].del = TRUE]

StatsSessions == {1, 2}

\* the rows log_answer writes for these questions: choice answers right or
\* wrong, open answers ungraded or graded 2 or 3
StatsAnswerRows ==
    {[session |-> s, question |-> q, user_text |-> FALSE, chosen |-> c,
      is_correct |-> IF c = 0 THEN 1 ELSE 0, ai_score |-> None,
      ai_comment |-> FALSE] :
        s \in StatsSessions, q \in {1, 3}, c \in {0, 1}}
    \cup
    {[session |-> s, question |-> q, user_text |-> TRUE, chosen |-> None,
      is_correct |-> None, ai_score |-> sc, ai_comment |-> sc # None] :
        s \in StatsSessions, q \in {2, 4}, sc \in {None, 2, 3}}

InitStats ==
    /\ sessions = <<>>
    /\ selected = <<>>
    /\ _PENDING_SESSIONS = [u \in UserIds |-> None]
    /\ dicts = [r \in DictRefs |-> FreeDict]
    /\ tasks = EmptyBag
    /\ out = Msg(0, "none", None, None, NoStats)
    /\ lim = [tasks |-> 0, sessions |-> 0, answers |-> MaxStatsAnswers,
              rotate |-> 0, rows |-> 0, users |-> {}]
    /\ topics = AllTopics
    /\ qrows \in {StatsQuestions, StatsQuestionsCut}
    /\ answers \in UNION {[1..n -> StatsAnswerRows] : n \in 0..MaxStatsAnswers}

\* wrong_topics = await db.answers_by_topic_stats(session_id)
StatsQuery(session_id) ==
    /\ out' = Msg(0, "stats", session_id, None, answers_by_topic_stats(session_id))
    /\ UNCHANGED <<topics, qrows, sessions, answers, _PENDING_SESSIONS, dicts,
                   tasks, selected, lim>>

NextStats == \E session_id \in StatsSessions : StatsQuery(session_id)

SpecStats == InitStats /\ [][NextStats]_vars

(***************************************************************************)
(* pick_questions on its own: any small table of questions, any topic id,  *)
(* any limit, with and without randomize                                    *)
(***************************************************************************)
\* rows of two topics, some of them deleted
PickRows == {[Mcq(tp, 2, 0) EXCEPT !.del = d] : tp \in {1, 2}, d \in BOOLEAN}

\* the topic ids asked for: those of the catalogue and one that is unknown
PickTopics == 1..(Cardinality(TopicIds) + 1)

InitPick ==
    /\ sessions = <<>>
    /\ answers = <<>>
    /\ selected = <<>>
    /\ _PENDING_SESSIONS = [u \in UserIds |-> None]
    /\ dicts = [r \in DictRefs |-> FreeDict]
    /\ tasks = EmptyBag
    /\ out = Msg(0, "none", None, None, NoStats)
    /\ lim = [tasks |-> 0, sessions |-> 0, answers |-> 0,
              rotate |-> MaxPickDraw, rows |-> MaxPickRows, users |-> {}]
    /\ topics = AllTopics
    /\ qrows \in UNION {[1..n -> PickRows] : n \in 0..MaxPickRows}

\* questions = await db.pick_questions(topic_id, limit, randomize=...)
PickQuery(topic_id, limit, randomize) ==
    /\ \E rot \in (IF randomize THEN 0..lim.rotate ELSE {0}) :
          out' = Msg(0, IF randomize THEN "picked_random" ELSE "picked",
                     topic_id, limit, pick_questions(topic_id, limit, rot))
    /\ UNCHANGED <<topics, qrows, sessions, answers, _PENDING_SESSIONS, dicts,
                   tasks, selected, lim>>

NextPick ==
    \E topic_id \in PickTopics, limit \in 0..MaxPickLimit, randomize \in BOOLEAN :
        PickQuery(topic_id, limit, randomize)

SpecPick == InitPick /\ [][NextPick]_vars

(***************************************************************************)
(* Properties                                                              *)
(***************************************************************************)
SessionIds == 1..Len(sessions)
AnswersOf(s) == {i \in 1..Len(answers) : answers[i].session = s}

\* C1: every persisted Session satisfies 0 <= idx <= total_questions and
\* correct_count <= idx, in every reachable state.
SessionBounds ==
    \A s \in SessionIds :
        /\ 0 <= sessions[s].idx
        /\ sessions[s].idx <= sessions[s].total
        /\ sessions[s].correct <= sessions[s].idx

\* C2: concurrent actions on one question are never both scored: a session
\* holds at most one Answer row per question of its batch, its cursor moves
\* only past answered questions and never past the batch length.
NoDoubleScoring ==
    \A s \in SessionIds :
        /\ \A i, j \in AnswersOf(s) :
              answers[i].question = answers[j].question => i = j
        /\ sessions[s].idx <= Cardinality(AnswersOf(s))
        /\ sessions[s].idx <= sessions[s].total

\* a handler of user u starts now and reads or mutates u's Flow State
UserAction(u) ==
    \/ CmdQuiz(u)
    \/ \E txt \in Texts \ {"skip"} : Flow(u, txt)
    \/ \E q \in QuestionIds, c \in ChoiceIndexes : Callback(u, q, c)

\* from the validation of an accepted answer until the next step is decided
InTurn(t) == t.pc \in TurnPcs \cup {"logged", "adv", "progress_done"}

\* C3: a turn is atomic per user: while a turn of a user is between its
\* validation and its decision of the next step, no other action of that
\* user reads or mutates the user's Flow State.
TurnAtomic ==
    [][\A t \in TaskSet : InTurn(t) => ~UserAction(t.u)]_vars

\* the question user u is asked, None when u is not in a quiz or is past it
CurrentQuestion(u) ==
    LET st == _PENDING_SESSIONS[u]
    IN IF /\ st # None
          /\ dicts[st].stage = "answering"
          /\ GetOr0(dicts[st].idx) < Len(dicts[st].questions)
       THEN dicts[st].questions[GetOr0(dicts[st].idx) + 1]
       ELSE None

OptionIndexes(q) == 0..(qrows[q].nopts - 1)

\* a button of another question, or of an option the question does not have
StaleButton(u, q, c) ==
    /\ CurrentQuestion(u) # None
    /\ (q # CurrentQuestion(u) \/ c \notin OptionIndexes(CurrentQuestion(u)))

\* a typed reply to an mcq question that is no number of one of its options
BadTyped(u, txt) ==
    /\ Plain(txt)
    /\ CurrentQuestion(u) # None
    /\ qrows[CurrentQuestion(u)].qtype = "mcq"
    /\ (ParseInt(txt) = None
          \/ ParseInt(txt) - 1 \notin OptionIndexes(CurrentQuestion(u)))

RejectedInput(u) ==
    \/ \E q \in Pressable(u), c \in ChoiceIndexes :
          StaleButton(u, q, c) /\ Callback(u, q, c)
    \/ \E txt \in Texts : BadTyped(u, txt) /\ FlowAnswering(u, txt)

\* C4: in the answering stage a button of another question, a choice index
\* outside the options (by button or typed) and a non-numeric reply to an
\* mcq question leave the cursor and the correct count as they are, write
\* no Answer row and no progress, and start no further work.
RejectedInputsChangeNothing ==
    [][\A u \in UserIds :
          RejectedInput(u) =>
              UNCHANGED <<sessions, answers, _PENDING_SESSIONS, dicts, tasks>>]_vars

\* a button of a closed question was pressed during a quiz and turned down
StaleButtonRejected ==
    \E u \in UserIds :
        /\ CurrentQuestion(u) # None
        /\ out = Msg(u, "closed", None, None, NoStats)

\* the Answer row of an ungraded open answer
NullRow(session_id, question_id) ==
    [session |-> session_id, question |-> question_id, user_text |-> TRUE,
     chosen |-> None, is_correct |-> None, ai_score |-> None,
     ai_comment |-> FALSE]

\* a turn on an open question whose answer the grader did not score
FailedTurn(t) ==
    /\ t.pc \in {"open_log_fail", "logged", "adv"}
    /\ t.q # None
    /\ qrows[t.q].qtype = "open"
    /\ t.score = None

\* C5: when the grader call of an open-question turn fails, the turn still
\* completes: its Answer row is written with is_correct and ai_score null,
\* and the session's cursor moves from the validated position to the next.
GradingFailureCompletes ==
    [][\A t \in TaskSet :
          FailedTurn(t) =>
              /\ OpenLogFail(t) =>
                    answers' = Append(answers, NullRow(t.sid0, t.q))
              /\ AdvanceAfterAnswer(t) =>
                    \/ \E n \in BagToSet(tasks') : n.pc = "adv"
                    \/ sessions'[t.sid0].idx = t.idx0 + 1]_vars

\* C6: a session on a topic that holds 1..6 questions when it is selected
\* takes the whole pool: total_questions equals that number.
SmallTopicWholePool ==
    \A s \in SessionIds :
        (1 <= selected[s] /\ selected[s] < MIN_QUESTION_COUNT)
            => sessions[s].total = selected[s]

\* C7: a session on a topic that holds at least 7 questions when it is
\* selected has total_questions in 7..min(10, available).
LargeTopicInRange ==
    \A s \in SessionIds :
        selected[s] >= MIN_QUESTION_COUNT
            => sessions[s].total \in
                 MIN_QUESTION_COUNT..Min(MAX_QUESTION_COUNT, selected[s])

\* the session sizes that selecting topic x can produce for user u now
TotalsOffered(u, x) ==
    LET st == _PENDING_SESSIONS[u]
    IN IF /\ st # None
          /\ dicts[st].stage = "choose_topic"
          /\ TopicOf(dicts[st], TopicTitle(x)) = x
       THEN {Len(questions) : questions \in Batches(dicts[st], x)}
       ELSE {}

\* topic x is on the list user u selects from
Selectable(u, x) == TotalsOffered(u, x) # {}

StageOf(pend, ds, u) == IF pend[u] = None THEN "none" ELSE ds[pend[u]].stage

\* C9: when the selected topic has no questions, no Session row is created,
\* the user is told so and the selection does not move the user's stage to
\* answering (it leaves the stage as it was); every Session row has
\* total_questions >= 1.
NoEmptySession ==
    /\ [](\A s \in SessionIds : sessions[s].total >= 1)
    /\ [][\A t \in TaskSet :
            (t.pc = "pick" /\ t.avail = 0 /\ Pick(t)) =>
                /\ sessions' = sessions
                /\ out' = Msg(t.u, "no_questions", None, None, NoStats)
                /\ StageOf(_PENDING_SESSIONS', dicts', t.u)
                       = StageOf(_PENDING_SESSIONS, dicts, t.u)]_vars

\* a topic listed with questions was empty when the user selected it
EmptyTopicSelected ==
    \E u \in UserIds :
        /\ out = Msg(u, "no_questions", None, None, NoStats)
        /\ StageOf(_PENDING_SESSIONS, dicts, u) = "choose_topic"

\* a Flow State that carries nothing of a quiz
Discarded(d) ==
    /\ d.stage = "choose_level"
    /\ d.questions = <<>>
    /\ d.session_id = None
    /\ d.idx = None
    /\ d.correct = None

\* C10: a quiz-start action issued while the user has a Flow State discards
\* the old quiz: when it has run, the Flow State it reset is in stage
\* choose_level and carries no batch, session id, cursor or correct count
\* of a quiz begun before the action was issued.
QuizStartDiscards ==
    [][\A t \in TaskSet :
          (/\ t.pc = "quiz_levels" /\ t.had
           /\ QuizLevels(t)
           /\ _PENDING_SESSIONS'[t.u] = t.st) =>
              /\ dicts'[t.st].stage = "choose_level"
              /\ \/ Discarded(dicts'[t.st])
                 \/ dicts'[t.st].session_id > t.sid0]_vars

\* C11: a quiz-start action of a user without a Flow State leaves the user
\* in choose_level only if some level had an eligible topic (active, with at
\* least one question) when the action was handled; otherwise, when the
\* handler has finished, the user's Flow State is absent.
QuizStartNeedsEligible ==
    [][\A t \in TaskSet :
          (/\ ~t.had /\ t.avail = 0
           /\ \/ QuizLevels(t) /\ t.levels # {}
              \/ QuizPop(t)) =>
              StageOf(_PENDING_SESSIONS', dicts', t.u) = "none"]_vars

\* the keys of a quiz in a state dict
QuizKeys(d) == <<d.stage, d.questions, d.session_id, d.idx, d.correct>>

\* C12: from any stage, a return-to-main-menu input removes the user's Flow
\* State and a return-to-level-choice input rewinds it to choose_level with
\* nothing of a quiz left in it; no step of either handler creates or
\* updates a Session row or writes an Answer row, and the rest of the
\* return-to-level-choice handler only fills in the level list.
ReturnsLeaveStoreAlone ==
    /\ [][\A u \in UserIds :
            FlowMainMenu(u, "menu") =>
                /\ _PENDING_SESSIONS'[u] = None
                /\ UNCHANGED <<sessions, answers>>]_vars
    /\ [][\A u \in UserIds :
            FlowBack(u, "back") =>
                /\ _PENDING_SESSIONS'[u] # None
                /\ Discarded(dicts'[_PENDING_SESSIONS'[u]])
                /\ UNCHANGED <<sessions, answers>>]_vars
    /\ [][\A t \in TaskSet :
            BackLevels(t) =>
                /\ t.st \in Live(_PENDING_SESSIONS', tasks') =>
                      QuizKeys(dicts'[t.st]) = QuizKeys(dicts[t.st])
                /\ UNCHANGED <<sessions, answers, _PENDING_SESSIONS>>]_vars

\* a user went back to the level choice in the middle of a quiz
ReturnedDuringQuiz ==
    \E u \in UserIds :
        /\ out = Msg(u, "back_levels", None, None, NoStats)
        /\ StageOf(_PENDING_SESSIONS, dicts, u) = "choose_level"
        /\ \E s \in SessionIds : sessions[s].user = u /\ sessions[s].idx >= 1
                                     /\ sessions[s].idx < sessions[s].total

\* the last row of table answers
LastAnswer(as) == as[Len(as)]

\* the step of turn t that runs the body of _advance_after_answer: the
\* cursor and the count are set and the progress write is issued
WritesProgress(t) ==
    /\ AdvanceAfterAnswer(t)
    /\ t.pc = "adv" \/ ~(dicts[t.st].last_msg /\ dicts[t.st].chat_id)

\* a turn on a choice question
McqTurn(t) == t.q # None /\ qrows[t.q].qtype = "mcq" /\ t.choice # None

\* C13: an accepted choice-question turn with chosen index c writes one
\* Answer row with is_correct = 1 iff the question's correct_index is
\* defined and equals c (0 otherwise), and its progress write raises the
\* running correct count, in memory and persisted, by 1 iff is_correct = 1
\* and leaves it otherwise.
McqScoring ==
    [][\A t \in TaskSet :
          McqTurn(t) =>
              /\ McqLog(t) =>
                    /\ Len(answers') = Len(answers) + 1
                    /\ LastAnswer(answers').question = t.q
                    /\ LastAnswer(answers').chosen = t.choice
                    /\ (LastAnswer(answers').is_correct = 1) <=>
                          (qrows[t.q].correct # None /\ qrows[t.q].correct = t.choice)
                    /\ LastAnswer(answers').is_correct \in {0, 1}
              /\ WritesProgress(t) =>
                    LET before == GetOr0(dicts[t.st].correct)
                        step == IF qrows[t.q].correct # None
                                     /\ qrows[t.q].correct = t.choice THEN 1 ELSE 0
                    IN /\ dicts'[t.st].correct = before + step
                       /\ sessions'[t.sid0].correct = sessions[t.sid0].correct + step]_vars

\* a turn on an open question that the grader scored
GradedTurn(t) ==
    /\ t.pc \in {"open_log", "logged", "adv"}
    /\ t.q # None
    /\ qrows[t.q].qtype = "open"
    /\ t.score # None

\* C14: an open-question turn graded with score s writes one Answer row
\* with ai_score = s and is_correct null, and its progress write raises the
\* running correct count, in memory and persisted, by 1 iff s >= 4 and
\* leaves it for s in 0..3.
OpenScoring ==
    [][\A t \in TaskSet :
          GradedTurn(t) =>
              /\ OpenLog(t) =>
                    /\ Len(answers') = Len(answers) + 1
                    /\ LastAnswer(answers') =
                          [NullRow(t.sid0, t.q) EXCEPT !.ai_score = t.score,
                                                     !.ai_comment = TRUE]
              /\ WritesProgress(t) =>
                    LET before == GetOr0(dicts[t.st].correct)
                        step == IF t.score >= 4 THEN 1 ELSE 0
                    IN /\ dicts'[t.st].correct = before + step
                       /\ sessions'[t.sid0].correct = sessions[t.sid0].correct + step]_vars

\* the answers of session s to questions of topic tp that need review
ReviewCount(s, tp) ==
    Cardinality({i \in AnswersOf(s) :
        /\ answers[i].question \in QuestionsOf(tp)
        /\ \/ answers[i].is_correct = 0
           \/ /\ answers[i].is_correct = None
              /\ (answers[i].ai_score = None \/ answers[i].ai_score < 3)})

\* C15: the remediation aggregation of a session returns one row per topic
\* that has answers of that session needing review (is_correct = 0, or
\* is_correct null with ai_score null or below 3), with their number;
\* topics without such answers are absent, answers of other sessions are
\* not counted, and the rows are in descending order of the count.
StatsAsSpecified ==
    out.kind = "stats" =>
        LET s == out.n
            r == out.wrong
        IN /\ \A i \in DOMAIN r :
                 /\ r[i][1] \in TopicIds
                 /\ r[i][2] = ReviewCount(s, r[i][1])
                 /\ r[i][2] >= 1
           /\ \A tp \in TopicIds :
                 ReviewCount(s, tp) >= 1 =>
                     Cardinality({i \in DOMAIN r : r[i][1] = tp}) = 1
           /\ \A i, j \in DOMAIN r : i < j => r[i][2] >= r[j][2]

\* counts T1: 1, T2: 2 were returned as [T2, T1]
StatsLargerFirst ==
    /\ out.kind = "stats"
    /\ out.wrong = <<(<<2, 2>>), (<<1, 1>>)>>

\* a correct answer: the right option, or an open answer graded 4 or 5
RightAnswer(a) ==
    \/ a.is_correct = 1
    \/ a.is_correct = None /\ a.ai_score # None /\ a.ai_score >= 4

\* every question of the batch qs was answered in session s, and every
\* answer of the session is correct
AllCorrect(s, qs) ==
    /\ \A k \in 1..Len(qs) : \E i \in AnswersOf(s) : answers[i].question = qs[k]
    /\ \A i \in AnswersOf(s) : RightAnswer(answers[i])

\* the step of turn t that sends the summary of the session
SendsSummary(t) ==
    /\ ProgressDone(t)
    /\ t.lidx >= Len(t.lqs)
    /\ dicts[t.st].session_id # None

\* C16: when every question of a session with N questions was answered
\* correctly, the summary of the session reports N out of N and an empty
\* remediation list.
PerfectSessionSummary ==
    [][\A t \in TaskSet :
          (SendsSummary(t) /\ AllCorrect(dicts[t.st].session_id, t.lqs)) =>
              LET N == sessions[dicts[t.st].session_id].total
              IN out' = Msg(t.u, "summary", N, N, NoStats)]_vars

\* user u is in a quiz and no handler of u is in flight
AtRest(u) ==
    /\ _PENDING_SESSIONS[u] # None
    /\ dicts[_PENDING_SESSIONS[u]].stage = "answering"
    /\ \A t \in TaskSet : t.u # u

\* the in-memory cursor and count of u equal the persisted ones
InStep(u) ==
    LET d == dicts[_PENDING_SESSIONS[u]]
    IN /\ GetOr0(d.idx) = sessions[d.session_id].idx
       /\ GetOr0(d.correct) = sessions[d.session_id].correct

\* C17: the in-memory cursor and correct count stay in lockstep with the
\* persisted progress: a failed progress write leaves the in-memory idx and
\* correct count as they were, and whenever a user in a quiz has no handler
\* in flight the in-memory (idx, correct) equals the persisted
\* (idx, correct_count).
Lockstep ==
    /\ [](\A u \in UserIds : AtRest(u) => InStep(u))
    /\ [][\A t \in TaskSet :
            (UpdateProgressFails(t) /\ _PENDING_SESSIONS[t.u] = t.st) =>
                /\ dicts'[t.st].idx = dicts[t.st].idx
                /\ dicts'[t.st].correct = dicts[t.st].correct]_vars

\* C18: within a session the persisted idx and the persisted correct_count
\* never decrease, whatever the sequence and interleaving of the user's
\* actions.
ProgressMonotone ==
    [][\A s \in SessionIds :
          /\ sessions'[s].idx >= sessions[s].idx
          /\ sessions'[s].correct >= sessions[s].correct]_vars

\* C19: Answer rows are append-only and Session and Answer rows are never
\* deleted: every step, the start-up sequence after a restart included,
\* leaves each Answer row written before it in place and unchanged and
\* removes no Session row.
AnswersAppendOnly ==
    [][/\ Len(answers') >= Len(answers)
       /\ \A i \in 1..Len(answers) : answers'[i] = answers[i]
       /\ Len(sessions') >= Len(sessions)
       /\ \A s \in SessionIds : ~sessions[s].del => ~sessions'[s].del]_vars

\* an answer or a button press of user u arrives
AnswerArrives(u) ==
    \/ \E txt \in Texts : Plain(txt) /\ Flow(u, txt)
    \/ \E q \in Pressable(u), c \in ChoiceIndexes : Callback(u, q, c)

\* C20: when an accepted turn has moved the cursor to the batch length, its
\* next step runs the remediation query for the turn's session and sends a
\* summary with the running correct count out of the batch length; the
\* step after that removes the user's Flow State; an answer or a button
\* press of a user without a Flow State is not scored.
SummaryEndsQuiz ==
    /\ [][\A t \in TaskSet :
            (ProgressDone(t) /\ t.lidx >= Len(t.lqs)) =>
                /\ out' = Msg(t.u, "summary", t.cc, Len(t.lqs),
                              answers_by_topic_stats(t.sid0))
                /\ tasks' = Replace(t, [t EXCEPT !.pc = "summary_sent"])]_vars
    /\ [][\A t \in TaskSet :
            SummarySent(t) => _PENDING_SESSIONS'[t.u] = None]_vars
    /\ [][\A u \in UserIds :
            (_PENDING_SESSIONS[u] = None /\ AnswerArrives(u)) =>
                UNCHANGED <<sessions, answers, tasks, _PENDING_SESSIONS>>]_vars

\* the Flow States and the store
FlowAndStore == <<sessions, answers, _PENDING_SESSIONS, dicts, tasks>>

\* a button answer of user u arrives outside the answering stage
ButtonOffStage(u) ==
    /\ StageOf(_PENDING_SESSIONS, dicts, u) \in {"none", "choose_level", "choose_topic"}
    /\ \E q \in QuestionIds, c \in ChoiceIndexes : Callback(u, q, c)

\* C21 as stated: a button answer outside the answering stage, and any text
\* of a user without a Flow State, change neither the stage nor the cursor
\* and write nothing to the store.
OffStageAnyText ==
    [][\A u \in UserIds :
          (\/ ButtonOffStage(u)
           \/ _PENDING_SESSIONS[u] = None /\ \E txt \in Texts : Flow(u, txt)) =>
              UNCHANGED FlowAndStore]_vars

\* C21: a button answer outside the answering stage, and any text other
\* than the return-to-level-choice input of a user without a Flow State,
\* change neither the stage nor the cursor, start no work and write nothing
\* to the store.
OffStageIgnored ==
    [][\A u \in UserIds :
          (\/ ButtonOffStage(u)
           \/ /\ _PENDING_SESSIONS[u] = None
              /\ \E txt \in Texts \ {"back"} : Flow(u, txt)) =>
              UNCHANGED FlowAndStore]_vars

\* a button was pressed during the choice of a topic and turned down
ButtonInTopicChoice ==
    \E u \in UserIds :
        /\ out = Msg(u, "inactive", None, None, NoStats)
        /\ StageOf(_PENDING_SESSIONS, dicts, u) = "choose_topic"

\* the level has an active topic with a question
LevelEligible(level) ==
    \E x \in EligibleTopics : topics[x].level = level

\* a handler that fetches the topics of a level starts only on the text of a
\* level offered to a user who is choosing a level
LevelAsked ==
    \A n \in BagToSet(tasks') :
        n.pc = "list_topics" /\ CopiesIn(n, tasks') > CopiesIn(n, tasks) =>
            /\ StageOf(_PENDING_SESSIONS, dicts, n.u) = "choose_level"
            /\ \E level \in dicts[_PENDING_SESSIONS[n.u]].levels :
                   /\ Flow(n.u, level)
                   /\ n.tmap = list_topics(level)

\* the stage of u goes from the choice of a level to the choice of a topic
\* only where such a handler ends, for a level that has an eligible topic
LevelToTopic(u) ==
    /\ StageOf(_PENDING_SESSIONS, dicts, u) = "choose_level"
    /\ StageOf(_PENDING_SESSIONS', dicts', u) = "choose_topic"
    => \E t \in TaskSet :
          /\ t.pc = "list_topics" /\ t.u = u /\ ListTopics(t)
          /\ \E level \in Levels : t.tmap = list_topics(level) /\ LevelEligible(level)

\* a text of u that is no offered level, while u chooses a level
OtherLevelInput(u, txt) ==
    /\ StageOf(_PENDING_SESSIONS, dicts, u) = "choose_level"
    /\ txt \notin dicts[_PENDING_SESSIONS[u]].levels
    /\ Flow(u, txt)

\* every topic that can be selected is active and has a question
SelectableHaveQuestions ==
    \A u \in UserIds :
        StageOf(_PENDING_SESSIONS, dicts, u) = "choose_topic" =>
            \A txt \in Texts :
                TopicOf(dicts[_PENDING_SESSIONS[u]], txt) # None =>
                    TopicOf(dicts[_PENDING_SESSIONS[u]], txt) \in EligibleTopics

\* C22 as stated: the stage goes from choose_level to choose_topic only on an
\* offered level that has an active topic with questions; every other input
\* leaves the stage at choose_level; every selectable topic has questions.
LevelChoiceAnyInput ==
    /\ []SelectableHaveQuestions
    /\ [][/\ LevelAsked
          /\ \A u \in UserIds :
                /\ LevelToTopic(u)
                /\ \A txt \in Texts :
                      OtherLevelInput(u, txt) =>
                          StageOf(_PENDING_SESSIONS', dicts', u) = "choose_level"]_vars

\* C22: the stage goes from choose_level to choose_topic only on an offered
\* level that has an active topic with questions; every other input except
\* the return to the main menu leaves the stage at choose_level; every
\* selectable topic has questions.
LevelChoice ==
    /\ []SelectableHaveQuestions
    /\ [][/\ LevelAsked
          /\ \A u \in UserIds :
                /\ LevelToTopic(u)
                /\ \A txt \in Texts \ {"menu"} :
                      OtherLevelInput(u, txt) =>
                          StageOf(_PENDING_SESSIONS', dicts', u) = "choose_level"]_vars

\* a level without an eligible topic was chosen and turned down
LevelTurnedDown ==
    \E u \in UserIds :
        /\ out = Msg(u, "no_level_topics", None, None, NoStats)
        /\ StageOf(_PENDING_SESSIONS, dicts, u) = "choose_level"

\* the row a selection of topic x by user u with a batch of n questions creates
NewSession(u, x, n) ==
    [user |-> u, topic |-> x, total |-> n, idx |-> 0, correct |-> 0, del |-> FALSE]

\* a handler that fetches a batch starts only on the title of a topic offered
\* to a user who is choosing a topic
TopicAsked ==
    \A n \in BagToSet(tasks') :
        n.pc = "pick" /\ CopiesIn(n, tasks') > CopiesIn(n, tasks) =>
            /\ StageOf(_PENDING_SESSIONS, dicts, n.u) = "choose_topic"
            /\ \E txt \in Texts :
                   /\ TopicOf(dicts[_PENDING_SESSIONS[n.u]], txt) = n.topic
                   /\ dicts[_PENDING_SESSIONS[n.u]].tmap[n.topic] > 0
                   /\ Flow(n.u, txt)

\* table sessions changes in length only where such a handler inserts one row
OneRowPerSelection ==
    Len(sessions') # Len(sessions) =>
        \E t \in TaskSet :
            /\ t.pc = "pick" /\ Pick(t)
            /\ sessions' = Append(sessions, NewSession(t.u, t.topic, Len(t.lqs)))

\* the stage of u goes from the choice of a topic to answering only where a
\* handler that made its row stores the batch, before any question is shown
TopicToAnswering(u) ==
    /\ StageOf(_PENDING_SESSIONS, dicts, u) = "choose_topic"
    /\ StageOf(_PENDING_SESSIONS', dicts', u) = "answering"
    => \E t \in TaskSet :
          /\ t.pc = "session_started" /\ t.u = u /\ SessionStarted(t)
          /\ t.sid \in DOMAIN sessions
          /\ sessions[t.sid] = NewSession(u, t.topic, Len(t.lqs))
          /\ t.lqs # <<>>
          /\ \A i \in DOMAIN t.lqs : qrows[t.lqs[i]].topic = t.topic
          /\ dicts'[_PENDING_SESSIONS'[u]].questions = t.lqs
          /\ dicts'[_PENDING_SESSIONS'[u]].session_id = t.sid
          /\ out'.kind = "start"

\* the first question is shown by a handler whose row is in the table
FirstQuestionHasSession ==
    \A t \in TaskSet :
        t.pc = "send_first" /\ SendFirst(t) =>
            /\ t.sid \in DOMAIN sessions
            /\ sessions[t.sid].user = t.u
            /\ sessions[t.sid].total = Len(t.lqs)

\* a text of u that selects no offered topic, while u chooses a topic
OtherTopicInput(u, txt) ==
    /\ StageOf(_PENDING_SESSIONS, dicts, u) = "choose_topic"
    /\ TopicOf(dicts[_PENDING_SESSIONS[u]], txt) = None
    /\ Flow(u, txt)

\* C23 as stated: the stage goes from choose_topic to answering only on the
\* selection of an offered topic, which creates one Session row (idx 0,
\* correct_count 0, of that user and topic) and stores the batch before the
\* first question is shown; every other input in choose_topic leaves the
\* stage unchanged and creates no Session row.
TopicChoiceAnyInput ==
    [][/\ TopicAsked
       /\ OneRowPerSelection
       /\ FirstQuestionHasSession
       /\ \A u \in UserIds :
             /\ TopicToAnswering(u)
             /\ \A txt \in Texts :
                   OtherTopicInput(u, txt) =>
                       /\ StageOf(_PENDING_SESSIONS', dicts', u) = "choose_topic"
                       /\ sessions' = sessions]_vars

\* C23: the same, where "every other input" leaves out the return to the
\* main menu and the return to the choice of a level.
TopicChoice ==
    [][/\ TopicAsked
       /\ OneRowPerSelection
       /\ FirstQuestionHasSession
       /\ \A u \in UserIds :
             /\ TopicToAnswering(u)
             /\ \A txt \in Texts \ {"menu", "back"} :
                   OtherTopicInput(u, txt) =>
                       /\ StageOf(_PENDING_SESSIONS', dicts', u) = "choose_topic"
                       /\ sessions' = sessions]_vars

\* a quiz was announced: the row is in the table and the batch in the state
StartAnnounced ==
    \E u \in UserIds :
        /\ out.kind = "start" /\ out.u = u
        /\ StageOf(_PENDING_SESSIONS, dicts, u) = "answering"
        /\ dicts[_PENDING_SESSIONS[u]].session_id \in DOMAIN sessions
        /\ dicts[_PENDING_SESSIONS[u]].questions # <<>>

\* a handler of an accepted open answer waits for the grader
GradingPending == \E t \in TaskSet : t.pc = "grading"

\* the turn is over: its row is written, the cursor has moved and the next
\* question or the summary is out
TurnCompleted ==
    /\ ~GradingPending
    /\ Len(answers) > 0
    /\ \E s \in DOMAIN sessions : sessions[s].idx > 0

\* C24: every accepted open-question turn eventually completes (Answer row
\* written, cursor advanced), whether or not the grader ever answers.
OpenTurnCompletes == GradingPending ~> TurnCompleted

\* the reply is a JSON object with a comment and a score in 0..5
WellFormed(reply) ==
    /\ reply.kind \notin {"error", "malformed", "no_score", "no_comment"}
    /\ reply.score \in 0..5

\* C25: a grader reply that is no valid JSON, lacks score or comment or has
\* a score outside 0..5 is a grading failure: no score is taken from it, the
\* turn takes the failure branch, its Answer row is written ungraded and the
\* turn goes on to the progress write; every ai_score in table answers is
\* null or in 0..5.
GraderReplyChecked ==
    /\ [](/\ \A reply \in Replies :
               ~WellFormed(reply) => score_open_answer(reply) = None
          /\ \A i \in DOMAIN answers :
               answers[i].ai_score = None \/ answers[i].ai_score \in 0..5)
    /\ [][\A t \in TaskSet :
            /\ (t.pc = "grading" /\ Graded(t)) =>
                  \A n \in BagToSet(tasks') \ TaskSet :
                      IF n.score = None THEN n.pc = "open_log_fail"
                      ELSE n.pc = "open_log" /\ n.score \in 0..5
            /\ (FailedTurn(t) /\ OpenLogFail(t)) =>
                  /\ answers' = Append(answers, NullRow(t.sid0, t.q))
                  /\ tasks' = Replace(t, [t EXCEPT !.pc = "logged"])]_vars

\* table answers holds a row for the question of turn t
RowWritten(t) == \E i \in DOMAIN answers : answers[i].question = t.q

\* the message is a question after the first, or a summary
FollowUp(m) == (m.kind = "question" /\ m.n >= 2) \/ m.kind = "summary"

\* C26: within a turn the Answer row is written first, then the cursor is
\* advanced and the progress written, and only then the next question or
\* the summary is sent: a next question or summary is sent only by a turn
\* whose progress write is done.
TurnOrder ==
    /\ [][\A t \in TaskSet :
            (AdvanceAfterAnswer(t) /\ sessions' # sessions) =>
                /\ RowWritten(t)
                /\ answers' = answers
                /\ \E s \in DOMAIN sessions :
                      /\ sessions'[s].idx = dicts'[t.st].idx
                      /\ dicts'[t.st].idx = GetOr0(dicts[t.st].idx) + 1
                /\ out' = out]_vars
    /\ [][(FollowUp(out') /\ out' # out) =>
            \E t \in TaskSet :
                /\ t.pc = "progress_done" /\ ProgressDone(t)
                /\ RowWritten(t)
                /\ t.lidx >= 1
                /\ \E s \in DOMAIN sessions : sessions[s].idx >= t.lidx
                /\ out'.kind = "question" => out'.n = t.lidx + 1
                /\ UNCHANGED <<sessions, answers>>]_vars

\* the second question of a session is out after the first turn's writes
SecondQuestionShown ==
    /\ out.kind = "question" /\ out.n = 2
    /\ Len(answers) = 1
    /\ \E s \in DOMAIN sessions : sessions[s].idx = 1

\* the handlers of a user run one at a time
OneAtATime == lim.tasks = 1

\* C27: when the user's actions are processed one at a time, a step appends
\* at most one Answer row, a grader reply is taken once per turn and the
\* persisted cursor moves by exactly 1; the number of Answer rows of a
\* session equals its persisted idx whenever no turn is in progress and is
\* idx or idx + 1 in between.
RowsFollowCursor ==
    /\ [](OneAtATime =>
            \A s \in SessionIds :
                LET n == Cardinality(AnswersOf(s))
                IN /\ n = sessions[s].idx \/ n = sessions[s].idx + 1
                   /\ tasks = EmptyBag => n = sessions[s].idx)
    /\ [][OneAtATime =>
            /\ Len(answers') \in {Len(answers), Len(answers) + 1}
            /\ \A s \in SessionIds :
                  sessions'[s].idx \in {sessions[s].idx, sessions[s].idx + 1}
            /\ \A t \in TaskSet :
                  Graded(t) => t.score = None /\ UNCHANGED <<answers, sessions>>]_vars

\* a turn is over: one row, cursor at 1, no handler in flight
TurnCounted ==
    /\ OneAtATime
    /\ tasks = EmptyBag
    /\ \E s \in SessionIds :
          sessions[s].idx = 1 /\ Cardinality(AnswersOf(s)) = 1

\* C28: pick_questions returns min(limit, number of questions of the topic)
\* questions, each of that topic and none twice; for an unknown topic or a
\* topic without questions the result is empty; without randomize the
\* result is in the order of the question ids.
PickAsSpecified ==
    out.kind \in {"picked", "picked_random"} =>
        LET topic_id == out.n
            limit == out.m
            r == out.wrong
        IN /\ Len(r) = Min(limit, count_questions(topic_id))
           /\ Len(r) <= limit
           /\ \A i \in DOMAIN r : r[i] \in QuestionsOf(topic_id)
           /\ \A i, j \in DOMAIN r : i # j => r[i] # r[j]
           /\ (topic_id \notin TopicIds \/ QuestionsOf(topic_id) = {}) => r = <<>>
           /\ out.kind = "picked" => \A i, j \in DOMAIN r : i < j => r[i] < r[j]

\* a topic of three questions was asked for two and gave its first two
PickCutByLimit ==
    /\ out.kind = "picked"
    /\ out.m = 2
    /\ count_questions(out.n) = 3
    /\ out.wrong = <<1, 2>>

\* the fields of Session row s given at its creation are the same after the step
CreationFieldsKept(s) ==
    /\ sessions'[s].user = sessions[s].user
    /\ sessions'[s].topic = sessions[s].topic
    /\ sessions'[s].total = sessions[s].total

\* the step changes the progress of Session row s
ProgressChanged(s) ==
    \/ sessions'[s].idx # sessions[s].idx
    \/ sessions'[s].correct # sessions[s].correct

\* C29: no step changes the user, the topic or total_questions of a Session
\* row; idx and correct_count of a row change only in the progress write of
\* a turn whose Flow State addresses that row, and that write leaves every
\* other Session row as it was.
SessionFrame ==
    [][/\ Len(sessions') >= Len(sessions)
       /\ \A s \in SessionIds :
             /\ CreationFieldsKept(s)
             /\ ProgressChanged(s) =>
                   \E t \in TaskSet :
                       /\ AdvanceAfterAnswer(t)
                       /\ dicts[t.st].session_id = s
                       /\ Len(sessions') = Len(sessions)
                       /\ \A r \in SessionIds \ {s} : sessions'[r] = sessions[r]]_vars

\* the user left a session for a new one and answered there: the progress
\* of the new row moved, the old row is as it was created
OtherSessionUntouched ==
    /\ Len(sessions) = 2
    /\ sessions[1].idx = 0
    /\ sessions[2].idx = 1

\* the row of a choice answer
ChoiceShape(a) ==
    /\ a.chosen # None /\ ~a.user_text
    /\ a.is_correct \in {0, 1}
    /\ a.ai_score = None /\ ~a.ai_comment

\* the row of a graded open answer
GradedShape(a) ==
    /\ a.chosen = None /\ a.user_text
    /\ a.is_correct = None
    /\ a.ai_score # None /\ a.ai_score \in 0..5 /\ a.ai_comment

\* the row of an open answer that was not graded
UngradedShape(a) ==
    /\ a.chosen = None /\ a.user_text
    /\ a.is_correct = None
    /\ a.ai_score = None /\ ~a.ai_comment

\* C30: every Answer row has exactly one of chosen_index and user_text and
\* is a choice answer (is_correct 0 or 1, no score), a graded open answer
\* (no is_correct, ai_score in 0..5, a comment) or an ungraded open answer
\* (no is_correct, no score, no comment).
AnswerShapes ==
    \A i \in DOMAIN answers :
        /\ (answers[i].chosen # None) # answers[i].user_text
        /\ \/ ChoiceShape(answers[i])
           \/ GradedShape(answers[i])
           \/ UngradedShape(answers[i])

\* table answers holds a row of each shape
EveryShapeWritten ==
    /\ \E i \in DOMAIN answers : ChoiceShape(answers[i])
    /\ \E i \in DOMAIN answers : GradedShape(answers[i]) \/ UngradedShape(answers[i])

\* turn t writes its Answer row in this step
LogsAnswer(t) ==
    /\ McqLog(t) \/ OpenLog(t) \/ OpenLogFail(t)
    /\ answers' # answers

\* C31: a turn logs its Answer row under the session it was validated
\* against and writes the progress of that session only, also when the user
\* has started a new quiz while the turn was waiting for the grader.
TurnKeepsSession ==
    [][\A t \in TaskSet :
          /\ LogsAnswer(t) => LastAnswer(answers').session = t.sid0
          /\ AdvanceAfterAnswer(t) =>
                \A s \in SessionIds : ProgressChanged(s) => s = t.sid0]_vars

\* the Answer rows of session s that count as correct
RightRows(s) == {i \in AnswersOf(s) : RightAnswer(answers[i])}

\* C32: the correct_count a turn writes for a session equals the number of
\* the session's Answer rows with is_correct = 1 or ai_score >= 4; a row
\* written ungraded adds nothing to it, also when the grade was obtained
\* and the write of the graded row failed.
CorrectCountFromRows ==
    [][\A t \in TaskSet :
          AdvanceAfterAnswer(t) =>
              \A s \in SessionIds :
                  ProgressChanged(s) =>
                      sessions'[s].correct = Cardinality(RightRows(s))]_vars

\* C33: a summary that reports fewer correct answers than questions comes
\* with a non-empty remediation list, and a summary with an empty
\* remediation list reports every question correct.
SummaryConsistent ==
    out.kind = "summary" =>
        /\ out.n < out.m => out.wrong # NoStats
        /\ out.wrong = NoStats => out.n = out.m

\* the question user u is on, where u is answering and has one left
OnQuestion(u, q) ==
    /\ _PENDING_SESSIONS[u] # None
    /\ LET d == dicts[_PENDING_SESSIONS[u]]
       IN /\ d.stage = "answering"
          /\ GetOr0(d.idx) < Len(d.questions)
          /\ q = d.questions[GetOr0(d.idx) + 1]

\* txt is a reply in the form question q was presented: the number of an
\* option where send_question showed buttons, any free text where it asked
\* for a typed answer
InShownForm(q, txt) ==
    IF HasButtons(q)
    THEN ParseInt(txt) # None /\ ParseInt(txt) \in 1..qrows[q].nopts
    ELSE Plain(txt)

\* C34: a reply to the presented question in the form it was presented is
\* accepted as this question's turn, so no question of a batch rejects every
\* reply and the session can be answered through to its summary
ShownFormAccepted ==
    [][\A u \in UserIds, txt \in Texts, q \in QuestionIds :
          OnQuestion(u, q) /\ InShownForm(q, txt) /\ FlowAnswering(u, txt)
              => \E t \in BagToSet(tasks') : t.pc \in TurnPcs /\ t.q = q]_vars

\* no element of s occurs twice
NoRepeat(s) == \A i, j \in 1..Len(s) : s[i] = s[j] => i = j

\* the batch held in state dict d is the one of its Session row
BatchOfSession(d) ==
    /\ NoRepeat(d.questions)
    /\ \A i \in 1..Len(d.questions) :
           qrows[d.questions[i]].topic = sessions[d.session_id].topic
    /\ Len(d.questions) = sessions[d.session_id].total
    /\ d.total = Len(d.questions)

\* task t sends a question message in this step
ShowsQuestion(t) ==
    \/ SendFirst(t)
    \/ ProgressDone(t) /\ t.lidx < Len(t.lqs)

\* C35: the batch of every session the flow creates holds no question twice
\* and only questions of the selected topic, and its length is the row's
\* total_questions, the in-memory total and the total shown with each
\* question
BatchMatchesSession ==
    /\ [](\A r \in DictRefs :
             dicts[r].stage = "answering" => BatchOfSession(dicts[r]))
    /\ [][\A t \in TaskSet :
             ShowsQuestion(t) =>
                 /\ out'.m = sessions[t.sid].total
                 /\ out'.m = Len(t.lqs)
                 /\ out'.n \in 1..out'.m]_vars

\* the second question of a batch of more than two is on the screen
SecondOfBatchShown ==
    /\ out.kind = "question"
    /\ out.n = 2
    /\ \E r \in DictRefs :
           /\ dicts[r].stage = "answering"
           /\ Len(dicts[r].questions) > 2
           /\ out.m = dicts[r].total

\* the question an unfinished session s stopped on; without rotation the
\* batch of s is the head of its topic's questions
StoppedOn(s) ==
    pick_questions(sessions[s].topic, sessions[s].total, 0)[sessions[s].idx + 1]

\* a message of an earlier, unfinished session of u still carries the option
\* buttons of question q: the session was left before q was answered, and
\* neither the main menu, nor the return to the levels, nor cmd_quiz removes
\* a keyboard
OldButtons(u, q) ==
    /\ lim.rotate = 0
    /\ _PENDING_SESSIONS[u] # None
    /\ \E s \in SessionIds :
          /\ sessions[s].user = u
          /\ dicts[_PENDING_SESSIONS[u]].session_id # None
          /\ s < dicts[_PENDING_SESSIONS[u]].session_id
          /\ sessions[s].idx < sessions[s].total
          /\ q = StoppedOn(s)
          /\ HasButtons(q)

\* u presses option c on that old message: the update carries the question
\* id and the option index, and nothing of the message's session
PressOld(u, q, c) == OldButtons(u, q) /\ Callback(u, q, c)

\* C36: a press on a question message of an earlier session of the user is
\* not taken as an answer of the later session: no turn starts, so no Answer
\* row is written and the later session's cursor stays
OldPressNotScored ==
    [][\A u \in UserIds, q \in QuestionIds, c \in ChoiceIndexes :
          PressOld(u, q, c) => tasks' = tasks]_vars

\* session s was left before its summary: its user's Flow State does not
\* refer to it (any more), and it is not a row whose creating handler has
\* yet to put it into the Flow State
Abandoned(s) ==
    /\ sessions[s].idx < sessions[s].total
    /\ LET st == _PENDING_SESSIONS[sessions[s].user]
       IN st = None \/ dicts[st].session_id # s
    /\ \A t \in TaskSet : ~(t.pc = "session_started" /\ t.sid = s)

\* this step writes an Answer row of session s
AnswerAdded(s) ==
    /\ Len(answers') > Len(answers)
    /\ LastAnswer(answers').session = s

ChoiceRow(s, q, c) ==
    [session |-> s, question |-> q, user_text |-> FALSE, chosen |-> c,
     is_correct |-> IsCorrect(q, c), ai_score |-> None, ai_comment |-> FALSE]

\* the count turn t passes on if it is the typed number (via = FALSE) or the
\* pressed button (via = TRUE)
CountPassedAs(t, via) == PassedCount([t EXCEPT !.via = via])

\* C38: for an option of an mcq question, the typed number and the pressed
\* button are the same turn: each writes the row of that option, and at the
\* advance each passes the same running count, so that cursor, count and
\* persisted progress come out the same
TypedAsPressed ==
    /\ [][\A t \in TaskSet :
             McqLog(t) /\ answers' # answers =>
                 LastAnswer(answers') =
                     ChoiceRow(dicts[t.st].session_id, t.q, t.choice)]_vars
    /\ [](\A t \in TaskSet :
             t.pc = "logged" /\ t.choice # None =>
                 CountPassedAs(t, TRUE) = CountPassedAs(t, FALSE))

\* user u submits an update
Submits(u) ==
    \/ CmdQuiz(u)
    \/ \E txt \in Texts : Flow(u, txt)
    \/ \E q \in Pressable(u), c \in ChoiceIndexes : Callback(u, q, c)

\* handler t resumes
Resumes(t) ==
    \/ QuizLevels(t) \/ QuizPop(t) \/ BackLevels(t) \/ ListTopics(t)
    \/ Pick(t) \/ SessionStarted(t) \/ SendFirst(t) \/ SentQ(t)
    \/ CbEdit(t) \/ McqLog(t) \/ Graded(t) \/ OpenLog(t) \/ OpenLogFail(t)
    \/ AdvanceAfterAnswer(t) \/ ProgressDone(t) \/ SummarySent(t)

\* a step of user u: an update of u arrives or a handler of u resumes
StepOf(u) == Submits(u) \/ \E t \in TaskSet : t.u = u /\ Resumes(t)

\* the Flow State, the handlers, the Session rows and the Answer rows of
\* user v are after the step what they were before it
Untouched(v) ==
    /\ _PENDING_SESSIONS'[v] = _PENDING_SESSIONS[v]
    /\ _PENDING_SESSIONS[v] # None =>
           dicts'[_PENDING_SESSIONS[v]] = dicts[_PENDING_SESSIONS[v]]
    /\ \A t \in TaskSet :
           t.u = v => CopiesIn(t, tasks') = CopiesIn(t, tasks)
                          /\ dicts'[t.st] = dicts[t.st]
    /\ \A t \in BagToSet(tasks') : t.u = v => t \in TaskSet
    /\ \A s \in 1..Len(sessions') :
           sessions'[s].user = v => s \in SessionIds /\ sessions'[s] = sessions[s]
    /\ \A i \in 1..Len(answers') :
           sessions'[answers'[i].session].user = v =>
               i <= Len(answers) /\ answers'[i] = answers[i]

====
